---- MODULE Spec2Model ----
(***************************************************************************)
(* State-machine model of w11tng::NetworkManager                            *)
(* (src/src/w11tng/networkmanager.cpp): the WiFi-Direct session manager of  *)
(* aethercast.  Every public method and every delegate callback that        *)
(* touches the session state is one action.  Null pointers are 0, an        *)
(* unset string is "".  A dereference of a null pointer ends the process    *)
(* (crashed).  The owner of the manager has registered its delegate         *)
(* (SetDelegate) before the first event, so every "if (delegate_)" is       *)
(* taken and the notification is recorded in calls.                         *)
(***************************************************************************)
EXTENDS Integers, Sequences, FiniteSets, TLC

\* ---------------------------------------------------------------- bounds
MaxPaths == 2     \* peer object paths the P2P layer can report
MaxAddrs == 2     \* peer hardware addresses
MaxIfaces == 1    \* wpa interface object paths (management / group)
MaxTimers == 2    \* GLib timeout sources that can be pending at once
MaxIps == 1       \* IPv4 addresses DHCP can hand out

Paths == 1..MaxPaths
Addrs == 1..MaxAddrs
Ifaces == 1..MaxIfaces
Timers == 1..MaxTimers
Ips == 1..MaxIps          \* addresses a peer is given
LocalIps == {MaxIps + 1}  \* the address of this host on the group interface

\* NetworkDevice instances.  The instance registered under path p is named
\* p; the one instance that can outlive its registry entry, because
\* current_device_ still holds it, is named Orphan.
Orphan == MaxPaths + 1
Objs == Paths \cup {Orphan}

Roles == {"GO", "client"}

\* ----------------------------------------------------------------- state
VARIABLES
    p2p_device_,            \* 0 or the object path of the P2P device stub
    mgmt_interface_,        \* 0 or the object path of the management interface stub
    manager_,               \* TRUE iff the manager stub exists
    devices_,               \* registry: object path -> NetworkDevice instance (0: no entry)
    heap,                   \* NetworkDevice instance -> its fields (NoDev: no such instance)
    current_device_,        \* 0 or a NetworkDevice instance
    current_group_device_,  \* 0 or the interface path of the group's P2P device stub
    current_group_iface_,   \* 0 or the interface path of the group's interface stub
    dhcp_client_,           \* 0 or the interface the DHCP client runs on
    dhcp_server_,           \* 0 or the interface the DHCP server runs on
    connect_timeout_,       \* 0 or the id of the timeout source added last
    session_available_,
    pending,                \* timeout sources of the main loop, neither fired nor removed
    crashed,                \* a null pointer was dereferenced: the process is gone
    capabilities_,          \* the capability list SetCapabilities stored last
    terminating,            \* the termination of the group was requested for the session
                            \* of current_device_, and no group-finished event came since
    ret,                    \* what the handler that ran last returned
    calls                   \* the calls it made on its collaborators and delegate, in order

prog == <<p2p_device_, mgmt_interface_, manager_, devices_, heap,
          current_device_, current_group_device_, current_group_iface_,
          dhcp_client_, dhcp_server_, connect_timeout_, session_available_,
          pending, crashed, capabilities_>>

vars == <<p2p_device_, mgmt_interface_, manager_, devices_, heap,
          current_device_, current_group_device_, current_group_iface_,
          dhcp_client_, dhcp_server_, connect_timeout_, session_available_,
          pending, crashed, capabilities_, terminating, ret, calls>>

\* ------------------------------------------------------- NetworkDevice
NoDev == [path |-> 0, address |-> 0, state |-> "None", role |-> "", ip |-> 0]

\* NetworkDevice::Create(path): the record of a peer just found.
NewDevice(path, address) ==
    [path |-> path, address |-> address, state |-> "Disconnected", role |-> "", ip |-> 0]

\* The paths the registry holds an instance with this address under.
Matches(address) == {p \in Paths : devices_[p] # 0 /\ heap[devices_[p]].address = address}

\* FindDevice, broken: the first registered instance whatever its address.
FindDevice_First(address) ==
    IF Matches(address) = {} THEN 0
    ELSE devices_[CHOOSE p \in Paths : devices_[p] # 0 /\ \A q \in Paths : devices_[q] # 0 => p <= q]

\* NetworkManager::FindDevice: the registered instance with this address
\* (the loop returns the first one it meets), 0 when there is none.
FindDevice(address) ==
    IF Matches(address) = {} THEN 0
    ELSE devices_[CHOOSE p \in Matches(address) : \A q \in Matches(address) : p <= q]

\* current_device_.reset(), broken: the reference is kept.
ResetCurrent_Keep(h) ==
    /\ current_device_' = current_device_
    /\ heap' = h

\* current_device_.reset(): the instance is destroyed with its last
\* reference, which current_device_ holds once the registry dropped it.
ResetCurrent(h) ==
    /\ current_device_' = 0
    /\ heap' = [h EXCEPT ![Orphan] = NoDev]

\* ------------------------------------------------------------- helpers
\* NetworkManager::ConfigureFromCapabilities: hands the information
\* element, with the session-availability bit, to the manager stub if
\* there is one.
ConfigureFromCapabilities(mgr, avail) ==
    IF mgr THEN << <<"SetWFDIEs", avail>> >> ELSE <<>>

\* NetworkManager::BuildMiracastModeCommand
BuildMiracastModeCommand(mode) == <<"MIRACAST", mode>>

\* NetworkManager::AdvanceDeviceState, split by what it writes: the
\* device's state, session_available_, and the calls it makes (the driver
\* command, the information element, the delegate's notification).
AdvanceHeap(h, d, state) == [h EXCEPT ![d].state = state]
AdvanceAvailable(state) ==
    IF state \in {"Connected", "Disconnected"} THEN state # "Connected" ELSE session_available_
AdvanceCalls(d, state) ==
    (IF state = "Disconnected"
        THEN << <<"SendDriverPrivateCommand", BuildMiracastModeCommand("Off")>> >>
        ELSE <<>>)
    \o (IF state \in {"Connected", "Disconnected"}
        THEN ConfigureFromCapabilities(manager_, AdvanceAvailable(state))
        ELSE <<>>)
    \o << <<"OnDeviceStateChanged", d, state>> >>

\* The first check of Connect, broken: a connection in progress is not looked at.
NotReady == p2p_device_ = 0

\* NetworkManager::Connect, its first check: no P2P device, or a connection
\* in progress.
NotReadyOrBusy == p2p_device_ = 0 \/ current_device_ # 0

\* OnGroupStarted, broken: no stub for the group's P2P device.
CreateGroupDevice_None(interface_path) == 0

\* NetworkManager::OnGroupStarted: the P2P device stub of the group.
CreateGroupDevice(interface_path) == interface_path

\* OnGroupInterfaceReady, broken: the roles swapped.
IsGroupOwner_Swapped(role) == role # "GO"

\* NetworkManager::OnGroupInterfaceReady: the role that runs the DHCP server.
IsGroupOwner(role) == role = "GO"

\* OnDhcpAddressAssigned, broken: this host's address stored as the peer's.
AssignedAddress_Local(local_address, remote_address) == local_address

\* NetworkManager::OnDhcpAddressAssigned: the address stored on the device.
AssignedAddress(local_address, remote_address) == remote_address

\* OnDeviceLost, broken: the group is never terminated.
ForcesTermination_Never(device) == FALSE

\* NetworkManager::OnDeviceLost: the lost device is the one a group is
\* active with.
ForcesTermination(device) == current_device_ = device /\ current_group_device_ # 0

\* The timeout callback, broken: the DHCP phase is not exempt.
TimeoutExempt_ConnectedOnly(state) == state = "Connected"

\* The timeout callback: the states in which it leaves the device alone.
TimeoutExempt(state) == state = "Connected" \/ state = "Configuration"

\* StopConnectTimeout, broken: the source is not removed.
StopConnectTimeout_Keep == pending

\* NetworkManager::StopConnectTimeout: the sources left pending.
StopConnectTimeout == IF connect_timeout_ = 0 THEN pending ELSE pending \ {connect_timeout_}

\* StartConnectTimeout, broken: no source is added, connect_timeout_ keeps
\* the value it had.
StartConnectTimeout_None == connect_timeout_

\* NetworkManager::StartConnectTimeout: the id g_timeout_add_seconds gives
\* the new source.
StartConnectTimeout == CHOOSE t \in Timers \ pending : \A t2 \in Timers \ pending : t <= t2

\* A null pointer is dereferenced: the process is gone, and with it every
\* object it held.
Crash ==
    /\ crashed' = TRUE
    /\ p2p_device_' = 0
    /\ mgmt_interface_' = 0
    /\ manager_' = FALSE
    /\ devices_' = [p \in Paths |-> 0]
    /\ heap' = [o \in Objs |-> NoDev]
    /\ current_device_' = 0
    /\ current_group_device_' = 0
    /\ current_group_iface_' = 0
    /\ dhcp_client_' = 0
    /\ dhcp_server_' = 0
    /\ connect_timeout_' = 0
    /\ session_available_' = TRUE
    /\ pending' = {}
    /\ capabilities_' = <<>>
    /\ terminating' = FALSE
    /\ ret' = "crash"
    /\ calls' = <<>>

\* A handler that returns r without a write or a call.
Skip(r) ==
    /\ ret' = r
    /\ calls' = <<>>
    /\ UNCHANGED prog
    /\ UNCHANGED terminating

\* --------------------------------------------------------------- actions
\* NetworkManager::Initialize, reached from OnServiceFound (firmware_loading)
\* and from OnFirmwareLoaded.  load: the firmware loader has to load first.
Initialize(load) ==
    /\ ~crashed
    /\ IF load
          THEN Skip("void")
          ELSE /\ manager_' = TRUE
               /\ ret' = "void"
               /\ calls' = <<>>
               /\ UNCHANGED <<p2p_device_, mgmt_interface_, devices_, heap,
                              current_device_, current_group_device_, current_group_iface_,
                              dhcp_client_, dhcp_server_, connect_timeout_,
                              session_available_, pending, crashed, capabilities_, terminating>>

\* NetworkManager::ReleaseInterface, followed by what its caller does with
\* manager_ (mgr: the value of manager_ afterwards).
ReleaseInterface(mgr) ==
    IF current_device_ # 0 /\ mgmt_interface_ = 0
    THEN Crash
    ELSE /\ IF current_device_ # 0
               THEN /\ ResetCurrent(AdvanceHeap(heap, current_device_, "Disconnected"))
                    /\ session_available_' = AdvanceAvailable("Disconnected")
                    /\ calls' = AdvanceCalls(current_device_, "Disconnected")
                    /\ current_group_device_' = 0
                    /\ current_group_iface_' = 0
               ELSE /\ calls' = <<>>
                    /\ UNCHANGED <<heap, current_device_, session_available_,
                                   current_group_device_, current_group_iface_>>
         /\ p2p_device_' = 0
         /\ mgmt_interface_' = 0
         /\ manager_' = mgr
         /\ terminating' = FALSE
         /\ ret' = "void"
         /\ UNCHANGED <<devices_, dhcp_client_, dhcp_server_, connect_timeout_,
                        pending, crashed, capabilities_>>

\* NetworkManager::Release / OnServiceLost -> ReleaseInternal
Release ==
    /\ ~crashed
    /\ ReleaseInterface(FALSE)

\* NetworkManager::OnInterfaceSelectionDone -> SetupInterface.  The
\* interface selector lives as long as the manager stub.
OnInterfaceSelectionDone(path) ==
    /\ ~crashed
    /\ manager_
    /\ IF path = 0 \/ p2p_device_ # 0
          THEN Skip("void")
          ELSE /\ mgmt_interface_' = path
               /\ p2p_device_' = path
               /\ ret' = "void"
               /\ calls' = <<>>
               /\ UNCHANGED <<manager_, devices_, heap,
                              current_device_, current_group_device_, current_group_iface_,
                              dhcp_client_, dhcp_server_, connect_timeout_,
                              session_available_, pending, crashed, capabilities_, terminating>>

\* NetworkManager::OnManagerInterfaceRemoved
OnManagerInterfaceRemoved(path) ==
    /\ ~crashed
    /\ manager_
    /\ IF p2p_device_ = 0
          THEN Crash
          ELSE IF p2p_device_ # path
          THEN Skip("void")
          ELSE ReleaseInterface(manager_)

\* NetworkManager::Connect.  device: 0 for a null pointer, else the address
\* of the device passed in.  accept: the answer of P2PDeviceStub::Connect.
Connect(device, accept) ==
    /\ ~crashed
    /\ IF NotReadyOrBusy
          THEN Skip("Connect=false")
       ELSE IF device = 0
          THEN Skip("Connect=false")
       ELSE IF FindDevice(device) = 0
          THEN Skip("Connect=false")
       ELSE LET d == FindDevice(device) IN
            IF ~accept
            THEN /\ current_device_' = d
                 /\ calls' = << <<"StopFind">>, <<"Connect", heap[d].path>> >>
                 /\ ret' = "Connect=false"
                 /\ UNCHANGED <<p2p_device_, mgmt_interface_, manager_, devices_,
                                heap, current_group_device_, current_group_iface_,
                                dhcp_client_, dhcp_server_, connect_timeout_,
                                session_available_, pending, crashed, capabilities_, terminating>>
            ELSE /\ pending # Timers
                 /\ current_device_' = d
                 /\ heap' = [heap EXCEPT ![d].state = "Association"]
                 /\ calls' = << <<"StopFind">>, <<"Connect", heap[d].path>>,
                                <<"OnDeviceStateChanged", d, "Association">> >>
                 /\ connect_timeout_' = StartConnectTimeout
                 /\ pending' = pending \cup {StartConnectTimeout}
                 /\ ret' = "Connect=true"
                 /\ UNCHANGED <<p2p_device_, mgmt_interface_, manager_, devices_,
                                current_group_device_, current_group_iface_,
                                dhcp_client_, dhcp_server_,
                                session_available_, crashed, capabilities_, terminating>>

\* NetworkManager::Disconnect.  device: 0 for a null pointer, else the
\* address of the device passed in.
Disconnect(device) ==
    /\ ~crashed
    /\ IF p2p_device_ = 0 \/ current_device_ = 0
          THEN Skip("Disconnect=false")
       ELSE IF device = 0
          THEN Crash
       ELSE IF FindDevice(device) = 0
          THEN Skip("Disconnect=false")
       ELSE IF current_group_device_ = 0
          THEN Crash
       ELSE /\ calls' = << <<"GroupDisconnect">> >>
            /\ terminating' = TRUE
            /\ ret' = "Disconnect=true"
            /\ UNCHANGED prog

\* NetworkManager::OnDeviceFound.  address: the hardware address the new
\* NetworkDevice reports; no two registered peers share one.
OnDeviceFound(path, address) ==
    /\ ~crashed
    /\ p2p_device_ # 0
    /\ IF devices_[path] # 0
          THEN Skip("void")
          ELSE /\ Matches(address) = {}
               /\ devices_' = [devices_ EXCEPT ![path] = path]
               /\ heap' = [heap EXCEPT ![path] = NewDevice(path, address)]
               /\ ret' = "void"
               /\ calls' = <<>>
               /\ UNCHANGED <<p2p_device_, mgmt_interface_, manager_, current_device_,
                              current_group_device_, current_group_iface_,
                              dhcp_client_, dhcp_server_, connect_timeout_,
                              session_available_, pending, crashed, capabilities_, terminating>>

\* NetworkManager::OnDeviceLost.  The registry's reference goes; the
\* instance lives on (as Orphan) only if current_device_ holds it.
OnDeviceLost(path) ==
    /\ ~crashed
    /\ p2p_device_ # 0
    /\ IF devices_[path] = 0
          THEN Skip("void")
          ELSE LET device == devices_[path] IN
               /\ devices_' = [devices_ EXCEPT ![path] = 0]
               /\ IF current_device_ = device
                     THEN /\ heap' = [heap EXCEPT ![Orphan] = heap[device], ![device] = NoDev]
                          /\ current_device_' = Orphan
                     ELSE /\ heap' = [heap EXCEPT ![device] = NoDev]
                          /\ UNCHANGED current_device_
               /\ calls' = (IF ForcesTermination(device)
                               THEN << <<"GroupDisconnect">> >>
                               ELSE <<>>)
                           \o << <<"OnDeviceLost", path>> >>
               /\ terminating' = (terminating \/ ForcesTermination(device))
               /\ ret' = "void"
               /\ UNCHANGED <<p2p_device_, mgmt_interface_, manager_,
                              current_group_device_, current_group_iface_,
                              dhcp_client_, dhcp_server_, connect_timeout_,
                              session_available_, pending, crashed, capabilities_>>

\* NetworkManager::HandleConnectFailed
HandleConnectFailed ==
    /\ ResetCurrent(AdvanceHeap(heap, current_device_, "Failure"))
    /\ calls' = AdvanceCalls(current_device_, "Failure")
    /\ pending' = StopConnectTimeout
    /\ connect_timeout_' = 0
    /\ terminating' = FALSE
    /\ ret' = "void"
    /\ UNCHANGED <<p2p_device_, mgmt_interface_, manager_, devices_,
                   current_group_device_, current_group_iface_,
                   dhcp_client_, dhcp_server_, session_available_, crashed, capabilities_>>

\* NetworkManager::OnPeerConnectFailed
OnPeerConnectFailed ==
    /\ ~crashed
    /\ p2p_device_ # 0
    /\ IF current_device_ = 0 THEN Skip("void") ELSE HandleConnectFailed

\* NetworkManager::OnGroupOwnerNegotiationFailure
OnGroupOwnerNegotiationFailure ==
    /\ ~crashed
    /\ p2p_device_ # 0
    /\ IF current_device_ = 0 THEN Skip("void") ELSE HandleConnectFailed

\* NetworkManager::OnGroupStarted
OnGroupStarted(interface_path, role) ==
    /\ ~crashed
    /\ p2p_device_ # 0
    /\ IF current_device_ = 0
          THEN Skip("void")
          ELSE /\ heap' = [AdvanceHeap(heap, current_device_, "Configuration")
                             EXCEPT ![current_device_].role = role]
               /\ calls' = AdvanceCalls(current_device_, "Configuration")
               /\ current_group_iface_' = interface_path
               /\ current_group_device_' = CreateGroupDevice(interface_path)
               /\ ret' = "void"
               /\ UNCHANGED <<p2p_device_, mgmt_interface_, manager_, devices_,
                              current_device_, dhcp_client_, dhcp_server_, connect_timeout_,
                              session_available_, pending, crashed, capabilities_, terminating>>

\* NetworkManager::OnGroupFinished
OnGroupFinished ==
    /\ ~crashed
    /\ p2p_device_ # 0
    /\ IF current_device_ = 0
          THEN Skip("void")
       ELSE IF mgmt_interface_ = 0
          THEN Crash
       ELSE /\ pending' = StopConnectTimeout
            /\ connect_timeout_' = 0
            /\ dhcp_client_' = 0
            /\ dhcp_server_' = 0
            /\ current_group_iface_' = 0
            /\ current_group_device_' = 0
            /\ ResetCurrent(AdvanceHeap(heap, current_device_, "Disconnected"))
            /\ session_available_' = AdvanceAvailable("Disconnected")
            /\ calls' = AdvanceCalls(current_device_, "Disconnected")
            /\ terminating' = FALSE
            /\ ret' = "void"
            /\ UNCHANGED <<p2p_device_, mgmt_interface_, manager_, devices_, crashed,
                           capabilities_>>

\* NetworkManager::OnInterfaceReady with OnGroupInterfaceReady and
\* OnManagementInterfaceReady.  The event comes from one of the two
\* interface stubs the manager holds.
OnInterfaceReady(object_path) ==
    /\ ~crashed
    /\ object_path \in {mgmt_interface_, current_group_iface_} \ {0}
    /\ IF current_group_iface_ # 0 /\ object_path = current_group_iface_
          THEN IF current_device_ = 0 \/ heap[current_device_].state # "Configuration"
                  THEN Skip("void")
               ELSE IF mgmt_interface_ = 0
                  THEN Crash
               ELSE /\ IF IsGroupOwner(heap[current_device_].role)
                          THEN /\ dhcp_server_' = current_group_iface_
                               /\ UNCHANGED dhcp_client_
                          ELSE /\ dhcp_client_' = current_group_iface_
                               /\ UNCHANGED dhcp_server_
                    /\ calls' = << <<"SendDriverPrivateCommand",
                                     BuildMiracastModeCommand("Source")>> >>
                    /\ ret' = "void"
                    /\ UNCHANGED <<p2p_device_, mgmt_interface_, manager_,
                                   devices_, heap, current_device_, current_group_device_,
                                   current_group_iface_, connect_timeout_,
                                   session_available_, pending, crashed, capabilities_, terminating>>
          ELSE IF mgmt_interface_ = 0 THEN Crash ELSE Skip("void")

\* NetworkManager::OnDhcpAddressAssigned.  The event comes from a DHCP
\* client or server the manager holds.
OnDhcpAddressAssigned(local_address, remote_address) ==
    /\ ~crashed
    /\ dhcp_client_ # 0 \/ dhcp_server_ # 0
    /\ IF current_device_ = 0 \/ heap[current_device_].state # "Configuration"
          THEN Skip("void")
          ELSE /\ heap' = AdvanceHeap([heap EXCEPT ![current_device_].ip =
                                                 AssignedAddress(local_address, remote_address)],
                                      current_device_, "Connected")
               /\ pending' = StopConnectTimeout
               /\ connect_timeout_' = 0
               /\ session_available_' = AdvanceAvailable("Connected")
               /\ calls' = AdvanceCalls(current_device_, "Connected")
               /\ ret' = "void"
               /\ UNCHANGED <<p2p_device_, mgmt_interface_, manager_, devices_,
                              current_device_, current_group_device_, current_group_iface_,
                              dhcp_client_, dhcp_server_, crashed, capabilities_, terminating>>

\* NetworkManager::OnDhcpTerminated, with the Disconnect(current_device_)
\* it calls first and whose result it ignores.
OnDhcpTerminated ==
    /\ ~crashed
    /\ dhcp_client_ # 0 \/ dhcp_server_ # 0
    /\ IF current_device_ = 0 \/ heap[current_device_].state # "Configuration"
          THEN Skip("void")
       ELSE LET disconnects == p2p_device_ # 0
                               /\ FindDevice(heap[current_device_].address) # 0
            IN IF disconnects /\ current_group_device_ = 0
               THEN Crash
               ELSE /\ heap' = AdvanceHeap(heap, current_device_, "Failure")
                    /\ calls' = (IF disconnects THEN << <<"GroupDisconnect">> >> ELSE <<>>)
                                \o AdvanceCalls(current_device_, "Failure")
                    /\ terminating' = (terminating \/ disconnects)
                    /\ ret' = "void"
                    /\ UNCHANGED <<p2p_device_, mgmt_interface_, manager_, devices_,
                                   current_device_, current_group_device_,
                                   current_group_iface_, dhcp_client_, dhcp_server_,
                                   connect_timeout_, session_available_, pending, crashed,
                                   capabilities_>>

\* The callback StartConnectTimeout hands to g_timeout_add_seconds, run by
\* the main loop for the pending source t.  It returns FALSE, which
\* removes the source.
OnConnectTimeout(t) ==
    /\ ~crashed
    /\ t \in pending
    /\ IF current_device_ = 0
          THEN Crash
       ELSE IF TimeoutExempt(heap[current_device_].state)
          THEN /\ connect_timeout_' = 0
               /\ pending' = pending \ {t}
               /\ calls' = <<>>
               /\ ret' = "OnConnectTimeout=FALSE"
               /\ UNCHANGED <<p2p_device_, mgmt_interface_, manager_, devices_,
                              heap, current_device_, current_group_device_,
                              current_group_iface_, dhcp_client_, dhcp_server_,
                              session_available_, crashed, capabilities_, terminating>>
       ELSE IF p2p_device_ = 0
          THEN Crash
       ELSE /\ connect_timeout_' = 0
            /\ pending' = pending \ {t}
            /\ calls' = << <<"Cancel">> >> \o AdvanceCalls(current_device_, "Failure")
            /\ ResetCurrent(AdvanceHeap(heap, current_device_, "Failure"))
            /\ terminating' = FALSE
            /\ ret' = "OnConnectTimeout=FALSE"
            /\ UNCHANGED <<p2p_device_, mgmt_interface_, manager_, devices_,
                           current_group_device_, current_group_iface_,
                           dhcp_client_, dhcp_server_, session_available_, crashed,
                           capabilities_>>

\* ------------------------------------------------------------------ Init
\* NetworkManager::NetworkManager: every pointer null, the session available.
Init ==
    /\ p2p_device_ = 0
    /\ mgmt_interface_ = 0
    /\ manager_ = FALSE
    /\ devices_ = [p \in Paths |-> 0]
    /\ heap = [o \in Objs |-> NoDev]
    /\ current_device_ = 0
    /\ current_group_device_ = 0
    /\ current_group_iface_ = 0
    /\ dhcp_client_ = 0
    /\ dhcp_server_ = 0
    /\ connect_timeout_ = 0
    /\ session_available_ = TRUE
    /\ pending = {}
    /\ crashed = FALSE
    /\ capabilities_ = <<>>
    /\ terminating = FALSE
    /\ ret = "void"
    /\ calls = <<>>

Next ==
    \/ \E load \in BOOLEAN : Initialize(load)
    \/ Release
    \/ \E path \in {0} \cup Ifaces : OnInterfaceSelectionDone(path)
    \/ \E path \in Ifaces : OnManagerInterfaceRemoved(path)
    \/ \E device \in {0} \cup Addrs, accept \in BOOLEAN : Connect(device, accept)
    \/ \E device \in {0} \cup Addrs : Disconnect(device)
    \/ \E path \in Paths, address \in Addrs : OnDeviceFound(path, address)
    \/ \E path \in Paths : OnDeviceLost(path)
    \/ OnPeerConnectFailed
    \/ OnGroupOwnerNegotiationFailure
    \/ \E interface_path \in Ifaces, role \in Roles : OnGroupStarted(interface_path, role)
    \/ OnGroupFinished
    \/ \E object_path \in Ifaces : OnInterfaceReady(object_path)
    \/ \E local \in LocalIps, remote \in Ips : OnDhcpAddressAssigned(local, remote)
    \/ OnDhcpTerminated
    \/ \E t \in Timers : OnConnectTimeout(t)

Spec == Init /\ [][Next]_vars

\* ------------------------------------------------------------- liveness
\* The main loop runs the callback of every pending timeout source, and
\* the P2P layer answers a requested group termination with a
\* group-finished event.
SpecLive ==
    /\ Spec
    /\ WF_vars(\E t \in Timers : OnConnectTimeout(t))
    /\ WF_vars(OnGroupFinished /\ terminating)

\* ---------------------------------------------------------- capabilities
\* The session machine above runs with the capability list the constructor
\* leaves; the specification below is about the list and the device type
\* derived from it.
MaxCaps == 4      \* entries of a capability list

Capabilities == {"Source", "Sink"}
CapLists == UNION {[1..n -> Capabilities] : n \in 0..MaxCaps}

\* DeviceType: the values the resolver can return.
DeviceTypes == {"Source", "PrimarySink", "DualRole", "Undefined"}

\* NetworkManager::GenerateWfdDeviceType: the values the call can return.
\* With neither capability no branch assigns device_type, and the value
\* returned is whatever the uninitialised local holds.
GenerateWfdDeviceType(capabilities) ==
    LET has_source == \E i \in 1..Len(capabilities) : capabilities[i] = "Source"
        has_sink == \E i \in 1..Len(capabilities) : capabilities[i] = "Sink"
    IN  IF has_sink /\ ~has_source THEN {"PrimarySink"}
        ELSE IF ~has_sink /\ has_source THEN {"Source"}
        ELSE IF has_sink /\ has_source THEN {"DualRole"}
        ELSE DeviceTypes

\* NetworkManager::SetCapabilities
SetCapabilities(capabilities) ==
    /\ ~crashed
    /\ IF capabilities = capabilities_
          THEN Skip("void")
          ELSE /\ capabilities_' = capabilities
               /\ calls' = ConfigureFromCapabilities(manager_, session_available_)
               /\ ret' = "void"
               /\ UNCHANGED <<p2p_device_, mgmt_interface_, manager_, devices_, heap,
                              current_device_, current_group_device_, current_group_iface_,
                              dhcp_client_, dhcp_server_, connect_timeout_,
                              session_available_, pending, crashed, terminating>>

\* A call of GenerateWfdDeviceType (ConfigureFromCapabilities makes it for
\* every information element): ret is the device type it returned.
DeriveDeviceType ==
    /\ ~crashed
    /\ \E device_type \in GenerateWfdDeviceType(capabilities_) : ret' = device_type
    /\ calls' = <<>>
    /\ UNCHANGED prog
    /\ UNCHANGED terminating

NextCaps ==
    \/ \E load \in BOOLEAN : Initialize(load)
    \/ \E capabilities \in CapLists : SetCapabilities(capabilities)
    \/ DeriveDeviceType

SpecCaps == Init /\ [][NextCaps]_vars

\* ------------------------------------------------------------ properties
\* The state of the current device ("None" without one).
CurrentState == IF current_device_ = 0 THEN "None" ELSE heap[current_device_].state

\* The connect-timeout timer is armed: connect_timeout_ names a source that
\* is still pending.
Armed == connect_timeout_ # 0 /\ connect_timeout_ \in pending

\* The call c is among the calls of the last handler.
Called(c) == \E i \in 1..Len(calls) : calls[i] = c

\* The registry holds an instance with this address.
Registered(address) ==
    \E p \in Paths : devices_[p] # 0 /\ heap[devices_[p]].address = address

C2_OneDhcpOnlyInConfiguration ==
    /\ ~(dhcp_client_ # 0 /\ dhcp_server_ # 0)
    /\ (dhcp_client_ # 0 \/ dhcp_server_ # 0) => CurrentState = "Configuration"

C4_ConnectRefusedChangesNothing ==
    [][\A device \in {0} \cup Addrs, accept \in BOOLEAN :
        (/\ Connect(device, accept)
         /\ \/ p2p_device_ = 0
            \/ current_device_ # 0
            \/ device = 0
            \/ ~Registered(device))
        => (ret' = "Connect=false" /\ calls' = <<>> /\ UNCHANGED prog)]_vars

\* Connect has returned false for an address the registry, which is not
\* empty, does not hold (or a null device), the P2P device being ready
\* and idle.
C4_Witness ==
    /\ ret = "Connect=false"
    /\ calls = <<>>
    /\ p2p_device_ # 0
    /\ current_device_ = 0
    /\ \E p \in Paths : devices_[p] # 0

\* C5: Connect(device), with a ready P2P device, no current device, the
\* address registered and the P2P layer accepting, returns true; then
\* current_device_ is the registry's instance for the address, its state
\* is Association, the timer is armed, and the calls made are stop-find,
\* the connect request for the instance's path and the delegate's
\* state-changed notification, in this order.
C5_ConnectSucceeds ==
    [][\A device \in Addrs :
        (/\ Connect(device, TRUE)
         /\ p2p_device_ # 0
         /\ current_device_ = 0
         /\ Registered(device))
        => (/\ ret' = "Connect=true"
            /\ \E p \in Paths :
                 /\ devices_[p] # 0
                 /\ heap[devices_[p]].address = device
                 /\ current_device_' = devices_[p]
                 /\ calls' = << <<"StopFind">>, <<"Connect", p>>,
                                <<"OnDeviceStateChanged", devices_[p], "Association">> >>
            /\ devices_' = devices_
            /\ CurrentState' = "Association"
            /\ Armed'
            /\ connect_timeout_' \notin pending)]_vars

\* Connect has succeeded for one of two registered devices.
C5_Witness ==
    /\ ret = "Connect=true"
    /\ CurrentState = "Association"
    /\ Armed
    /\ \A p \in Paths : devices_[p] # 0
    /\ Len(calls) = 3

\* C6: a group-owner-negotiation failure with a current device bound
\* leaves that device in Failure (and tells the delegate so), clears
\* current_device_ and removes the timeout source, so that the timer is
\* not armed; with no current device the event changes nothing.
C6_NegotiationFailure ==
    [][OnGroupOwnerNegotiationFailure =>
        IF current_device_ # 0
        THEN /\ current_device_' = 0
             /\ current_device_ # Orphan => heap'[current_device_].state = "Failure"
             /\ calls' = << <<"OnDeviceStateChanged", current_device_, "Failure">> >>
             /\ ~Armed'
             /\ connect_timeout_ \notin pending'
        ELSE UNCHANGED prog /\ calls' = <<>>]_vars

\* The failure has ended a connection attempt whose timer was pending: the
\* device is in Failure, nothing is current, no source is left.
C6_Witness ==
    /\ current_device_ = 0
    /\ connect_timeout_ = 0
    /\ pending = {}
    /\ \E p \in Paths :
         /\ devices_[p] # 0
         /\ heap[devices_[p]].state = "Failure"
         /\ heap[devices_[p]].role = ""
         /\ calls = << <<"OnDeviceStateChanged", devices_[p], "Failure">> >>

\* C7: group-started with a current device moves it to Configuration with
\* the role given and creates both group handles, and does nothing without
\* a current device; the group-interface-ready event that follows, the
\* device being in Configuration, starts a DHCP server on the group
\* interface and no client if the role is "GO", a DHCP client and no
\* server with any other role.
C7_GroupStartedThenDhcpByRole ==
    [][/\ \A interface_path \in Ifaces, role \in Roles :
            OnGroupStarted(interface_path, role) =>
                IF current_device_ # 0
                THEN /\ heap'[current_device_].state = "Configuration"
                     /\ heap'[current_device_].role = role
                     /\ current_group_iface_' = interface_path
                     /\ current_group_device_' = interface_path
                     /\ UNCHANGED <<current_device_, dhcp_client_, dhcp_server_>>
                ELSE UNCHANGED prog /\ calls' = <<>>
       /\ \A object_path \in Ifaces :
            (/\ OnInterfaceReady(object_path)
             /\ object_path = current_group_iface_
             /\ CurrentState = "Configuration")
            => IF heap[current_device_].role = "GO"
               THEN dhcp_server_' = current_group_iface_ /\ UNCHANGED dhcp_client_
               ELSE dhcp_client_' = current_group_iface_ /\ UNCHANGED dhcp_server_]_vars

\* The group interface of a group this host owns became ready: the DHCP
\* server runs, no client does.
C7_Witness ==
    /\ CurrentState = "Configuration"
    /\ heap[current_device_].role = "GO"
    /\ dhcp_server_ # 0
    /\ dhcp_server_ = current_group_iface_
    /\ dhcp_client_ = 0
    /\ calls = << <<"SendDriverPrivateCommand", BuildMiracastModeCommand("Source")>> >>

\* C8: a DHCP address-assigned(local, remote) event with the current
\* device in Configuration stores remote as the device's ip_address, moves
\* the device to Connected and removes the timeout source, so that the
\* timer is not armed; with no current device, or one in another state,
\* the event changes nothing.
C8_DhcpAddressAssigned ==
    [][\A local \in LocalIps, remote \in Ips :
        OnDhcpAddressAssigned(local, remote) =>
            IF CurrentState = "Configuration"
            THEN /\ heap'[current_device_].ip = remote
                 /\ heap'[current_device_].state = "Connected"
                 /\ UNCHANGED current_device_
                 /\ ~Armed'
                 /\ connect_timeout_ \notin pending'
            ELSE UNCHANGED prog /\ calls' = <<>>]_vars

\* The address arrived while the timer was still pending: the device is
\* Connected with the peer's address and the source is gone.
C8_Witness ==
    /\ CurrentState = "Connected"
    /\ heap[current_device_].ip \in Ips
    /\ connect_timeout_ = 0
    /\ pending = {}
    /\ Called(<<"OnDeviceStateChanged", current_device_, "Connected">>)

\* C9: a device-lost event for the path of the current device, a group
\* being active, removes the device from the registry and requests the
\* group's termination before it tells the delegate of the loss; the
\* group-finished event that follows tells the delegate that the lost
\* device is Disconnected, clears current_device_ and leaves the device
\* out of the registry.
C9_CurrentDeviceLost ==
    [][/\ \A path \in Paths :
            (/\ OnDeviceLost(path)
             /\ devices_[path] # 0
             /\ current_device_ = devices_[path]
             /\ current_group_device_ # 0)
            => /\ devices_'[path] = 0
               /\ current_device_' = Orphan
               /\ heap'[Orphan] = heap[devices_[path]]
               /\ calls' = << <<"GroupDisconnect">>, <<"OnDeviceLost", path>> >>
       /\ (OnGroupFinished /\ current_device_ = Orphan)
            => /\ Called(<<"OnDeviceStateChanged", Orphan, "Disconnected">>)'
               /\ current_device_' = 0
               /\ heap'[Orphan] = NoDev
               /\ \A p \in Paths : devices_'[p] = devices_[p] /\ devices_'[p] # Orphan]_vars

\* The current device was lost while its group was active.
C9_Witness ==
    /\ current_device_ = Orphan
    /\ current_group_device_ # 0
    /\ \E path \in Paths :
         /\ devices_[path] = 0
         /\ calls = << <<"GroupDisconnect">>, <<"OnDeviceLost", path>> >>

\* C10: when the connect timeout fires with the current device in
\* Configuration or Connected, nothing is called or notified and the
\* device, current_device_, the group handles and the DHCP objects stay as
\* they are; in any other state of the current device (Association) the
\* P2P connect is cancelled, the device moves to Failure and
\* current_device_ is cleared.
C10_TimeoutFires ==
    [][\A t \in Timers :
        (OnConnectTimeout(t) /\ current_device_ # 0) =>
            IF CurrentState \in {"Configuration", "Connected"}
            THEN /\ calls' = <<>>
                 /\ UNCHANGED <<devices_, heap, current_device_, current_group_device_,
                                current_group_iface_, dhcp_client_, dhcp_server_,
                                session_available_>>
            ELSE /\ calls' = << <<"Cancel">>,
                                <<"OnDeviceStateChanged", current_device_, "Failure">> >>
                 /\ current_device_ # Orphan => heap'[current_device_].state = "Failure"
                 /\ current_device_' = 0]_vars

\* The timer fired during the DHCP phase and left the session alone.
C10_Witness ==
    /\ ret = "OnConnectTimeout=FALSE"
    /\ calls = <<>>
    /\ CurrentState = "Configuration"
    /\ current_group_device_ # 0
    /\ dhcp_client_ # 0

\* C11 as claimed: once Disconnect(device) has returned true, a second
\* Disconnect(device) with no event in between cannot return true and issue
\* another group-termination request.  (With one device registered, the
\* call that returned true was made with that device.)
C11_SecondDisconnectRefused ==
    ret = "Disconnect=true" =>
        \A device \in Addrs :
            (Registered(device) /\ \A a \in Addrs : Registered(a) => a = device)
            => ~ENABLED (/\ Disconnect(device)
                         /\ ret' = "Disconnect=true"
                         /\ Called(<<"GroupDisconnect">>)')

\* The capability set of the list capabilities_.
CapabilitySet == {capabilities_[i] : i \in 1..Len(capabilities_)}

\* C12 as claimed: the device type derived is a function of the capability
\* set alone: {Sink} gives PrimarySink, {Source} gives Source, {Source, Sink}
\* gives DualRole and the empty set gives Undefined, whatever the order and
\* the duplicates of the list, on every call.
C12_DeviceTypeOfCapabilitySet ==
    ret \in DeviceTypes =>
        ret = (IF CapabilitySet = {"Sink"} THEN "PrimarySink"
               ELSE IF CapabilitySet = {"Source"} THEN "Source"
               ELSE IF CapabilitySet = {"Source", "Sink"} THEN "DualRole"
               ELSE "Undefined")

\* C13 as claimed: in every reachable state session_available_ is false
\* exactly while some device is in state Connected.
C13_UnavailableIffConnected ==
    session_available_ <=> ~(\E o \in Objs : heap[o].state = "Connected")

\* C14 as claimed: in every reachable state where current_device_ is
\* absent, the group handles and the DHCP client and server are absent too
\* (every teardown path released them before it cleared current_device_),
\* so that a Connect starts with none of them.
C14_NothingLeftWithoutCurrentDevice ==
    current_device_ = 0 =>
        /\ current_group_device_ = 0
        /\ current_group_iface_ = 0
        /\ dhcp_client_ = 0
        /\ dhcp_server_ = 0

\* C15: a group-finished event with a current device bound, whatever the
\* device's state, leaves the timer not armed, no DHCP client or server, no
\* group handle, the device Disconnected (the delegate is told so) and
\* current_device_ absent; without a current device it changes nothing.
C15_GroupFinishedResets ==
    [][OnGroupFinished =>
        IF current_device_ # 0
        THEN /\ ~Armed'
             /\ connect_timeout_' = 0
             /\ connect_timeout_ \notin pending'
             /\ dhcp_client_' = 0
             /\ dhcp_server_' = 0
             /\ current_group_device_' = 0
             /\ current_group_iface_' = 0
             /\ current_device_ # Orphan => heap'[current_device_].state = "Disconnected"
             /\ \E i \in 1..Len(calls') :
                    calls'[i] = <<"OnDeviceStateChanged", current_device_, "Disconnected">>
             /\ current_device_' = 0
        ELSE UNCHANGED prog /\ calls' = <<>>]_vars

\* Group-finished has ended a session that had reached Connected: the
\* device, still registered and with the address of that session, is
\* Disconnected and nothing of the session is left.
C15_Witness ==
    /\ current_device_ = 0
    /\ current_group_device_ = 0
    /\ current_group_iface_ = 0
    /\ dhcp_client_ = 0
    /\ dhcp_server_ = 0
    /\ connect_timeout_ = 0
    /\ \E p \in Paths :
         /\ devices_[p] # 0
         /\ heap[devices_[p]].state = "Disconnected"
         /\ heap[devices_[p]].ip \in Ips
         /\ Called(<<"OnDeviceStateChanged", devices_[p], "Disconnected">>)

\* C16 as claimed: whenever a handler has moved the current device to
\* Failure and left it bound (the DHCP-terminated path; the connect-failed
\* and timeout paths clear current_device_ in the same step),
\* current_device_ is eventually cleared, given that pending timers fire
\* and that requested group terminations are answered by a group-finished
\* event.
C16_FailureLeadsToCleared ==
    (/\ CurrentState = "Failure"
     /\ Called(<<"OnDeviceStateChanged", current_device_, "Failure">>))
    ~> (current_device_ = 0)

\* C17 as claimed: in every reachable state at most one connect-timeout
\* source is pending.
C17_AtMostOneTimerPending ==
    Cardinality(pending) <= 1

\* C18 as claimed: every change of the state of a device follows the
\* transition table: to Association only from Disconnected and by a
\* successful Connect; to Configuration only from Association and by
\* group-started; to Connected only from Configuration and by DHCP
\* address-assigned; to Failure only from Association by a negotiation or
\* connect failure or the timeout, or from Configuration by
\* DHCP-terminated; to Disconnected only by group-finished or an interface
\* release.
C18_TransitionTable ==
    [][\A o \in Objs :
        (/\ heap[o].state # "None"
         /\ heap'[o].state # "None"
         /\ heap'[o].state # heap[o].state)
        => /\ heap'[o].state = "Association" =>
                /\ heap[o].state = "Disconnected"
                /\ \E device \in Addrs : Connect(device, TRUE)
           /\ heap'[o].state = "Configuration" =>
                /\ heap[o].state = "Association"
                /\ \E interface_path \in Ifaces, role \in Roles :
                       OnGroupStarted(interface_path, role)
           /\ heap'[o].state = "Connected" =>
                /\ heap[o].state = "Configuration"
                /\ \E local \in LocalIps, remote \in Ips :
                       OnDhcpAddressAssigned(local, remote)
           /\ heap'[o].state = "Failure" =>
                \/ /\ heap[o].state = "Association"
                   /\ \/ OnPeerConnectFailed
                      \/ OnGroupOwnerNegotiationFailure
                      \/ \E t \in Timers : OnConnectTimeout(t)
                \/ /\ heap[o].state = "Configuration"
                   /\ OnDhcpTerminated
           /\ heap'[o].state = "Disconnected" =>
                \/ OnGroupFinished
                \/ Release
                \/ \E path \in Ifaces : OnManagerInterfaceRemoved(path)]_vars

\* C19 as claimed: in every reachable state a device carries an ip address
\* only while its state is Connected.
C19_AddressOnlyWhileConnected ==
    \A o \in Objs : heap[o].ip # 0 => heap[o].state = "Connected"

\* C20 as claimed: a Connect(device) that passes its checks and whose
\* connect request the P2P layer rejects returns false and leaves the
\* session idle: current_device_ absent, every device's state unchanged and
\* the timer not armed (so that a later Connect can succeed).
C20_RejectedConnectLeavesIdle ==
    [][\A device \in Addrs :
        (/\ Connect(device, FALSE)
         /\ p2p_device_ # 0
         /\ current_device_ = 0
         /\ Registered(device))
        => (/\ ret' = "Connect=false"
            /\ current_device_' = 0
            /\ heap' = heap
            /\ ~Armed')]_vars

\* C21 as claimed: in every reachable state in which Disconnect(device)
\* passes its checks (P2P device ready, current device bound, the address
\* of device in the registry) and goes on to request group termination,
\* current_group_device_ is present.
C21_DisconnectHasGroupDevice ==
    \A device \in Addrs :
        (/\ ~crashed
         /\ p2p_device_ # 0
         /\ current_device_ # 0
         /\ FindDevice(device) # 0)
        => current_group_device_ # 0

\* C22 as claimed: in every reachable state in which a connect-timeout
\* source is pending, the objects its callback dereferences, current_device_
\* and p2p_device_, are present.
C22_TimerCallbackObjectsExist ==
    pending # {} => (current_device_ # 0 /\ p2p_device_ # 0)

====
